---- MODULE Spec2Model ----
(***************************************************************************)
(* Update dispatch and conversation orchestration of telegram-bot-node:    *)
(*   Queue                (src/extra.js)                                   *)
(*   ConversationHandler  (src/handlers.js)                                *)
(*   App.getUpdates       (src/unnamed/part_000)                           *)
(*                                                                         *)
(* JavaScript runs one synchronous segment at a time; an async function    *)
(* gives up control only at an await.  Every action below is one such      *)
(* synchronous segment, from a call or a resumption to the next await.     *)
(***************************************************************************)
EXTENDS Integers, Sequences, FiniteSets, TLC

\* ------------------------------------------------------------------ bounds
\* Distinct task functions handed to the Queue on its own (SpecQueue).
NumTasks == 2
\* Pushes onto the main list over one run of the Queue (SpecQueue).
MaxEnq == 3
\* Entries the standby list may hold (SpecQueue).
MaxStandby == 2
\* Calls of App.getUpdates over one run (SpecApp).
MaxSubmit == 3
\* Handlers given to App.addHandler over one run (SpecSetup).
MaxHandlers == 3
\* Calls of App.getUpdates over one run with a changing registration
\* (SpecSetup).
MaxSetupSubmit == 2
\* Own fields of a raw update (SpecType).
MaxFields == 3
\* Chats the updates come from (SpecApp).
NumChats == 2
\* Users the updates come from (SpecHandler).
NumUsers == 2
\* Characters of a message text (SpecCommand).
MaxText == 4
\* Update ids the server hands out, and updates in one answer (SpecPolling).
MaxPollId == 4
MaxBatch == 3

\* ------------------------------------------------------- program constants
\* ConversationHandler.END, compared with === -1 in ConversationHandler.handle.
END == "-1"
\* What a callback without a return statement yields.
Undefined == "undefined"
\* App.update, App.last_update_id before the first update (null).
Null == [update_id |-> 0, chat |-> 0, kind |-> "null"]

VARIABLES
    queue,              \* Queue.queue: the main list, head first
    standby,            \* Queue.standby
    running,            \* Queue.running
    drains,             \* the processQueue invocations that entered the loop
    execs,              \* the task invocations made by processQueue, in order
    enqLog,             \* history: every task pushed onto the main list
    enqDrain,           \* history: the drain in its loop when enqLog[i] was pushed
    returnedEarly,      \* history: the latest call of a Queue method was a
                        \* processQueue that returned at line 138
    conversation,       \* App.handlers.conversation is set
    handlers_global,    \* App.handlers.global
    update,             \* App.update
    last_update_id,     \* App.last_update_id
    activeConversations,\* ConversationHandler.activeConversations
    submitted,          \* history: the updates getUpdates accepted, in order
    calls,              \* history: number of App.getUpdates calls
    fired,              \* history: the callbacks invoked, in order
    raw,                \* Update.update: the own fields of the raw structure
    typeOf,             \* what the getter Update.type returned
    handler,            \* the handler object under call
    hupdate,            \* the Update object given to it
    botData,            \* Context.botData
    hcall,              \* the call of handler.canHandle / handler.handle
    update_offset,      \* App.update_offset
    poll                \* the call of App.run_polling

qvars == <<queue, standby, running, drains, execs, enqLog, enqDrain,
          returnedEarly>>
hvars == <<handler, hupdate, botData, hcall>>
pvars == <<update_offset, poll>>
avars == <<conversation, handlers_global, update, last_update_id,
           activeConversations, submitted, calls, fired, raw, typeOf, hvars,
           pvars>>
vars == <<queue, standby, running, drains, execs, enqLog, enqDrain,
          returnedEarly,
          conversation, handlers_global, update, last_update_id,
          activeConversations, submitted, calls, fired, raw, typeOf,
          handler, hupdate, botData, hcall, update_offset, poll>>

Tasks == 1..NumTasks
Chats == 1..NumChats
\* With every new update taking the next unused id, MaxSubmit calls deliver
\* ids up to MaxSubmit.
UpdateIds == 1..MaxSubmit

\* ------------------------------------------------------------------ Queue
\* A task invocation: processQueue's `task()`.  The task's own synchronous
\* prefix has run.  pc, i and the locals of ConversationHandler.handle (its
\* parameter u, has = activeConversations.has(chat_id), state) belong to the
\* dispatch task of App.
NewExec(t, d) ==
    [task |-> t, drain |-> d, st |-> "running", pc |-> "started",
     i |-> 0, u |-> Null, has |-> FALSE, state |-> Undefined]

\* The drain that is inside its while loop, 0 when there is none.
ActiveDrain ==
    IF \E d \in 1..Len(drains) : drains[d].pc = "await"
    THEN CHOOSE d \in 1..Len(drains) : drains[d].pc = "await"
    ELSE 0

\* processQueue, line 141: const task = this.queue[0].
\* (LastTask: the variant that takes the newest entry.)
LastTask(q) == q[Len(q)]
HeadTask(q) == q[1]

\* processQueue, line 142: `await task()` resumes once the promise settled.
\* (NotAwaited: the variant that calls task() without awaiting it.)
NotAwaited(x) == TRUE
Settled(x) == x.st # "running"

\* processQueue, line 138, negated: the call goes on to the loop.
\* (EntersLoopNoFlag: the variant that does not look at this.running.)
EntersLoopNoFlag(r, q) == Len(q) # 0
EntersLoop(r, q) == ~(r \/ Len(q) = 0)

\* processQueue() up to its first await, called when the main list is q.
\* (ProcessQueueOnResets: the variant whose early return clears the flag.)
ProcessQueueOnResets(q) ==
    IF EntersLoop(running, q)
    THEN /\ running' = TRUE
         /\ drains' = Append(drains, [pc |-> "await", exec |-> Len(execs) + 1])
         /\ execs' = Append(execs, NewExec(HeadTask(q), Len(drains) + 1))
    ELSE /\ running' = FALSE
         /\ UNCHANGED <<drains, execs>>
ProcessQueueOn(q) ==
    IF EntersLoop(running, q)
    THEN /\ running' = TRUE
         /\ drains' = Append(drains, [pc |-> "await", exec |-> Len(execs) + 1])
         /\ execs' = Append(execs, NewExec(HeadTask(q), Len(drains) + 1))
    ELSE UNCHANGED <<running, drains, execs>>

\* this.queue.push(...ts), with the history of pushes.
Push(ts) ==
    /\ queue' = queue \o ts
    /\ enqLog' = enqLog \o ts
    /\ enqDrain' = enqDrain \o [k \in 1..Len(ts) |-> ActiveDrain]

addTask(t) ==
    /\ Len(enqLog) < MaxEnq
    /\ Push(<<t>>)
    /\ returnedEarly' = FALSE
    /\ UNCHANGED <<standby, running, drains, execs>>
    /\ UNCHANGED avars

addTasks(ts) ==
    /\ Len(enqLog) + Len(ts) <= MaxEnq
    /\ Push(ts)
    /\ returnedEarly' = FALSE
    /\ UNCHANGED <<standby, running, drains, execs>>
    /\ UNCHANGED avars

\* (addStandbyAlsoQueues: the variant that puts the task on the main list as
\* well.)
addStandbyAlsoQueues(t) ==
    /\ Len(standby) < MaxStandby
    /\ Len(enqLog) < MaxEnq
    /\ standby' = Append(standby, t)
    /\ Push(<<t>>)
    /\ returnedEarly' = FALSE
    /\ UNCHANGED <<running, drains, execs>>
    /\ UNCHANGED avars
addStandby(t) ==
    /\ Len(standby) < MaxStandby
    /\ standby' = Append(standby, t)
    /\ returnedEarly' = FALSE
    /\ UNCHANGED <<queue, running, drains, execs, enqLog, enqDrain>>
    /\ UNCHANGED avars

approveTaskById(index) ==
    /\ Len(enqLog) < MaxEnq
    /\ IF Len(standby) = 0 \/ index < 0 \/ index >= Len(standby)
       THEN UNCHANGED <<queue, enqLog, enqDrain>>
       ELSE Push(<<standby[index + 1]>>)
    /\ returnedEarly' = FALSE
    /\ UNCHANGED <<standby, running, drains, execs>>
    /\ UNCHANGED avars

approveAllTasks ==
    /\ Len(enqLog) + Len(standby) <= MaxEnq
    /\ IF Len(standby) = 0
       THEN UNCHANGED <<queue, enqLog, enqDrain>>
       ELSE Push(standby)
    /\ returnedEarly' = FALSE
    /\ UNCHANGED <<standby, running, drains, execs>>
    /\ UNCHANGED avars

clearStandby(index) ==
    /\ IF Len(standby) = 0 \/ index < 0 \/ index >= Len(standby)
       THEN UNCHANGED standby
       ELSE standby' = [k \in 1..(Len(standby) - 1) |->
                           IF k <= index THEN standby[k] ELSE standby[k + 1]]
    /\ returnedEarly' = FALSE
    /\ UNCHANGED <<queue, running, drains, execs, enqLog, enqDrain>>
    /\ UNCHANGED avars

clearAllStandby ==
    /\ standby' = <<>>
    /\ returnedEarly' = FALSE
    /\ UNCHANGED <<queue, running, drains, execs, enqLog, enqDrain>>
    /\ UNCHANGED avars

\* A call of processQueue() by the Queue's user.
processQueue ==
    /\ ProcessQueueOn(queue)
    /\ returnedEarly' = ~EntersLoop(running, queue)
    /\ UNCHANGED <<queue, standby, enqLog, enqDrain>>
    /\ UNCHANGED avars

\* The promise a plain task returned is fulfilled.
TaskCompletes(e) ==
    /\ e \in 1..Len(execs)
    /\ execs[e].st = "running"
    /\ execs' = [execs EXCEPT ![e].st = "completed"]
    /\ UNCHANGED <<queue, standby, running, drains, enqLog, enqDrain,
                 returnedEarly>>
    /\ UNCHANGED avars

\* The promise a plain task returned is rejected.
TaskRaises(e) ==
    /\ e \in 1..Len(execs)
    /\ execs[e].st = "running"
    /\ execs' = [execs EXCEPT ![e].st = "raised"]
    /\ UNCHANGED <<queue, standby, running, drains, enqLog, enqDrain,
                 returnedEarly>>
    /\ UNCHANGED avars

\* processQueue resumes after `await task()`: lines 143-145, and the next
\* iteration up to its await; a rejection leaves the function at line 142.
\* (DrainResumesOnce: the variant with `if` in place of `while` at line 140;
\* DrainResumesSwallows: the variant that catches what the task raised and
\* goes on with the loop.)
DrainResumesSwallows(d) ==
    /\ d \in 1..Len(drains)
    /\ drains[d].pc = "await"
    /\ Settled(execs[drains[d].exec])
    /\ queue' = Tail(queue)
    /\ IF Len(Tail(queue)) > 0
       THEN /\ execs' = Append(execs, NewExec(HeadTask(Tail(queue)), d))
            /\ drains' = [drains EXCEPT ![d].exec = Len(execs) + 1]
            /\ UNCHANGED running
       ELSE /\ running' = FALSE
            /\ drains' = [drains EXCEPT ![d].pc = "done"]
            /\ UNCHANGED execs
    /\ UNCHANGED <<standby, enqLog, enqDrain, returnedEarly>>
    /\ UNCHANGED avars
DrainResumesOnce(d) ==
    /\ d \in 1..Len(drains)
    /\ drains[d].pc = "await"
    /\ Settled(execs[drains[d].exec])
    /\ IF execs[drains[d].exec].st = "raised"
       THEN /\ drains' = [drains EXCEPT ![d].pc = "aborted"]
            /\ UNCHANGED <<queue, running, execs>>
       ELSE /\ queue' = Tail(queue)
            /\ running' = FALSE
            /\ drains' = [drains EXCEPT ![d].pc = "done"]
            /\ UNCHANGED execs
    /\ UNCHANGED <<standby, enqLog, enqDrain, returnedEarly>>
    /\ UNCHANGED avars
DrainResumes(d) ==
    /\ d \in 1..Len(drains)
    /\ drains[d].pc = "await"
    /\ Settled(execs[drains[d].exec])
    /\ IF execs[drains[d].exec].st = "raised"
       THEN /\ drains' = [drains EXCEPT ![d].pc = "aborted"]
            /\ UNCHANGED <<queue, running, execs>>
       ELSE /\ queue' = Tail(queue)
            /\ IF Len(Tail(queue)) > 0
               THEN /\ execs' = Append(execs, NewExec(HeadTask(Tail(queue)), d))
                    /\ drains' = [drains EXCEPT ![d].exec = Len(execs) + 1]
                    /\ UNCHANGED running
               ELSE /\ running' = FALSE
                    /\ drains' = [drains EXCEPT ![d].pc = "done"]
                    /\ UNCHANGED execs
    /\ UNCHANGED <<standby, enqLog, enqDrain, returnedEarly>>
    /\ UNCHANGED avars

\* ----------------------------------------------------------------- Update
\* UpdateType.ALL (src/constants.js 16-38): the string-valued static fields of
\* UpdateType in the order of their definition.
UpdateTypeALL ==
    << "message", "edited_message", "channel_post", "edited_channel_post",
       "business_connection", "business_message", "edited_business_message",
       "deleted_business_message", "message_reaction", "message_reaction_count",
       "inline_query", "chosen_inline_result", "callback_query",
       "shipping_query", "pre_checkout_query", "purchased_paid_media", "poll",
       "my_chat_member", "chat_member", "chat_join_request", "chat_boost",
       "removed_chat_boost" >>

\* What the getter returns when no field of UpdateType.ALL is present.
UnknownUpdateType == "Unknown Update Type"

\* The field names a decoded update may carry: the known kinds, update_id,
\* and a field UpdateType does not know.
Fields ==
    {UpdateTypeALL[j] : j \in 1..Len(UpdateTypeALL)} \cup {"update_id", "future_kind"}

\* The raw structures given to `new Update(raw)`: objects with at most
\* MaxFields own fields.
RawUpdates ==
    {{}} \cup {{f[k] : k \in 1..MaxFields} : f \in [1..MaxFields -> Fields]}

\* this.update.hasOwnProperty(type), on a decoded JSON object.
hasOwnProperty(r, f) == f \in r

\* Update.type, lines 243-248: the loop over UpdateType.ALL from position j.
\* (TypeFromLast: the variant that keeps the last field found.)
RECURSIVE TypeFromLast(_, _)
TypeFromLast(r, j) ==
    IF j > Len(UpdateTypeALL) THEN UnknownUpdateType
    ELSE LET later == TypeFromLast(r, j + 1)
         IN  IF later # UnknownUpdateType THEN later
             ELSE IF hasOwnProperty(r, UpdateTypeALL[j]) THEN UpdateTypeALL[j]
             ELSE UnknownUpdateType
RECURSIVE TypeFrom(_, _)
TypeFrom(r, j) ==
    IF j > Len(UpdateTypeALL) THEN UnknownUpdateType
    ELSE IF hasOwnProperty(r, UpdateTypeALL[j]) THEN UpdateTypeALL[j]
    ELSE TypeFrom(r, j + 1)

\* The getter Update.type is read on the Update made from raw.
GetType ==
    /\ typeOf' = TypeFrom(raw, 1)
    /\ UNCHANGED raw
    /\ UNCHANGED qvars
    /\ UNCHANGED <<hvars, pvars, conversation, handlers_global, update, last_update_id,
                   activeConversations, submitted, calls, fired>>

\* ------------------------------------------------- the registered handlers
\* What an update carries that a filter looks at: the text of a message.
Kinds == {"start", "text", "cancel"}

\* The updates the transport may deliver.
Payload(id, c, k) == [update_id |-> id, chat |-> c, kind |-> k]

\* update_id identifies an update: when the transport delivers an id again,
\* it delivers the same update.
SameUpdateAsBefore(u) ==
    \A k \in 1..Len(submitted) : submitted[k].update_id = u.update_id => submitted[k] = u

\* The dispatcher compares update ids and chat ids for equality only, so a
\* new update takes the next unused id and a new chat the next unused chat id.
NextUnused(u) ==
    /\ u.update_id <= Cardinality({submitted[k].update_id : k \in 1..Len(submitted)}) + 1
    /\ u.chat <= Cardinality({submitted[k].chat : k \in 1..Len(submitted)}) + 1

\* The registration made at setup: one ConversationHandler and the flat list.
entryPoints == <<"E1", "E2">>
globalHandlers == <<"G1", "G2">>
fallbacks == <<"F1", "F2">>
handlersGlobal == <<"H1", "H2">>
states == [S1 |-> <<"A1", "A2">>, S2 |-> <<"B1">>]

ConvHandlers == {"E1", "E2", "G1", "G2", "F1", "F2", "A1", "A2", "B1"}
FlatHandlers == {"H1", "H2"}

\* The handler objects App.addHandler may be given: the ConversationHandler
\* above ("CH1"), the flat handlers, and a second ConversationHandler ("CH2")
\* made with no entry points, no states and the fallbacks secondFallbacks.
Handlers == {"CH1", "CH2", "H1", "H2"}
secondFallbacks == <<"X1">>
\* handler instanceof ConversationHandler.
IsConversationHandler(h) == h \in {"CH1", "CH2"}

\* handler.filter: the kinds of update each registered handler accepts.
Filter(h) ==
    CASE h = "E1" -> {"start"}
      [] h = "E2" -> {"start", "text"}
      [] h = "G1" -> {"cancel"}
      [] h = "G2" -> {"cancel", "text"}
      [] h = "A1" -> {"text"}
      [] h = "A2" -> {"text", "start"}
      [] h = "B1" -> {"text"}
      [] h = "F1" -> {"cancel"}
      [] h = "F2" -> {"cancel", "text"}
      [] h = "H1" -> {"start", "text"}
      [] h = "H2" -> {"text", "cancel"}
      [] h = "X1" -> {"start", "text", "cancel"}

\* BaseHandler.canHandle.
canHandle(h, u) == u.kind \in Filter(h)

\* What the callback of each registered handler may return; the value a flat
\* handler or a fallback returns is never looked at.
Results(h) ==
    CASE h = "E1" -> {"S1", END}
      [] h = "E2" -> {"S2", Undefined}
      [] h = "G1" -> {END, Undefined}
      [] h = "G2" -> {END, Undefined}
      [] h = "A1" -> {"S2", END}
      [] h = "A2" -> {"S1", Undefined}
      [] h = "B1" -> {"S1", END}
      [] OTHER -> {Undefined}

\* `for (const handler of L) if (await handler.canHandle(update))`: the index
\* of the first handler of L from position `from` on that accepts u, else 0.
\* (LastMatch: the variant in which the last accepting handler wins.)
LastMatch(L, u, from) ==
    LET M == {j \in from..Len(L) : canHandle(L[j], u)}
    IN  IF M = {} THEN 0 ELSE CHOOSE j \in M : \A k \in M : j >= k
FirstMatch(L, u, from) ==
    LET M == {j \in from..Len(L) : canHandle(L[j], u)}
    IN  IF M = {} THEN 0 ELSE CHOOSE j \in M : \A k \in M : j <= k

\* ---------------------------------------------------- ConversationHandler
\* Map.set, Map.delete, Map.has on activeConversations.
MapSet(reg, k, v) == [x \in (DOMAIN reg) \cup {k} |-> IF x = k THEN v ELSE reg[x]]
MapDelete(reg, k) == [x \in (DOMAIN reg) \ {k} |-> reg[x]]
MapHas(reg, k) == k \in DOMAIN reg

\* Line 134: the conversation identity of an update.
ChatId(u) == u.chat

\* What `await handle(...)` yields: every return statement of handle is bare.
HandleReturn == Undefined

\* JavaScript truthiness of the values a handler or handle may yield.
Truthy(v) == v # Undefined

\* The step of a chain is described by the task invocation it leaves (ex), the
\* callback it starts (fire: none or one handler) and the registry (reg).
Step(x, f, reg) == [ex |-> x, fire |-> f, reg |-> reg]

\* A callback starts: handler.handle found canHandle true and calls
\* callback(u, context).
StartCallback(x, pc, L, j, u, reg) ==
    Step([x EXCEPT !.pc = pc, !.i = j], <<[h |-> L[j], u |-> u]>>, reg)

\* App.getUpdates lines 608-613, after handle returned: `if (handled) return`
\* leaves the executor without calling res; otherwise the flat loop begins.
AfterHandle(x, reg) ==
    IF Truthy(HandleReturn)
    THEN Step([x EXCEPT !.pc = "unresolved"], <<>>, reg)
    ELSE Step([x EXCEPT !.pc = "flat", !.i = 1], <<>>, reg)

\* handle, lines 176-181.
FallbackLoop(x, u, reg) ==
    LET j == FirstMatch(fallbacks, u, 1)
    IN  IF j # 0
        THEN StartCallback(x, "fallback_cb", fallbacks, j, u, reg)
        ELSE AfterHandle(x, reg)

\* handle, lines 150-162, up to the callback of the first matching handler.
StateLoop(x, u, reg) ==
    LET j == FirstMatch(states[x.state], u, 1)
    IN  IF j # 0
        THEN StartCallback(x, "state_cb", states[x.state], j, u, reg)
        ELSE FallbackLoop(x, u, reg)

\* handle, lines 139-148, from position `from` of globalHandlers.
GlobalLoop(x, u, from, reg) ==
    LET j == FirstMatch(globalHandlers, u, from)
    IN  IF j # 0
        THEN StartCallback(x, "global_cb", globalHandlers, j, u, reg)
        ELSE StateLoop(x, u, reg)

\* handle, lines 165-173, up to the callback of the first matching handler.
EntryLoop(x, u, reg) ==
    LET j == FirstMatch(entryPoints, u, 1)
    IN  IF j # 0
        THEN StartCallback(x, "entry_cb", entryPoints, j, u, reg)
        ELSE FallbackLoop(x, u, reg)

\* ConversationHandler.handle(update, context), lines 133-137 and on.
handle(x, u, reg) ==
    IF MapHas(reg, ChatId(u))
    THEN LET y == [x EXCEPT !.u = u, !.has = TRUE, !.state = reg[ChatId(u)]]
         IN  IF y.state \in DOMAIN states
             THEN GlobalLoop(y, u, 1, reg)
             ELSE FallbackLoop(y, u, reg)
    ELSE EntryLoop([x EXCEPT !.u = u], u, reg)

\* Lines 167-171: the entry point's callback returned r.
\* (AfterEntryStoresEnd: the variant without the test of line 168;
\* AfterEntryTokenOnly: the variant that stores nothing for undefined.)
AfterEntryStoresEnd(x, r, reg) ==
    AfterHandle(x, MapSet(reg, ChatId(x.u), r))
AfterEntryTokenOnly(x, r, reg) ==
    AfterHandle(x, IF r # END /\ r # Undefined
                   THEN MapSet(reg, ChatId(x.u), r) ELSE reg)
AfterEntry(x, r, reg) ==
    AfterHandle(x, IF r # END THEN MapSet(reg, ChatId(x.u), r) ELSE reg)

\* Lines 141-147: a conversation-global handler's callback returned r.
\* (AfterGlobalNoReturn: the variant without the return of line 146.)
AfterGlobalNoReturn(x, r, reg) ==
    GlobalLoop(x, x.u, x.i + 1,
               IF r = END THEN MapDelete(reg, ChatId(x.u)) ELSE reg)
AfterGlobal(x, r, reg) ==
    IF r = END
    THEN AfterHandle(x, MapDelete(reg, ChatId(x.u)))
    ELSE GlobalLoop(x, x.u, x.i + 1, reg)

\* Lines 152-160: a state handler's callback returned r.
\* (AfterStateKeepsEntry: the variant without the delete of line 156;
\* AfterStateTriesNext: the variant without the return of line 160.)
AfterStateKeepsEntry(x, r, reg) ==
    AfterHandle(x, IF r = END THEN reg ELSE MapSet(reg, ChatId(x.u), r))
AfterStateTriesNext(x, r, reg) ==
    LET L == states[x.state]
        j == FirstMatch(L, x.u, x.i + 1)
        reg2 == IF r = END THEN MapDelete(reg, ChatId(x.u))
                ELSE MapSet(reg, ChatId(x.u), r)
    IN  IF j # 0
        THEN StartCallback(x, "state_cb", L, j, x.u, reg2)
        ELSE AfterHandle(x, reg2)
AfterState(x, r, reg) ==
    AfterHandle(x, IF r = END THEN MapDelete(reg, ChatId(x.u))
                   ELSE MapSet(reg, ChatId(x.u), r))

\* Lines 178-179: a fallback's callback returned.
\* (AfterFallbackStores: the variant that stores the fallback's result.)
AfterFallbackStores(x, r, reg) ==
    AfterHandle(x, MapSet(reg, ChatId(x.u), r))
AfterFallback(x, r, reg) == AfterHandle(x, reg)

\* -------------------------------------------------------------------- App
\* The callbacks a step starts, as entries of `fired`.
Invocations(e, f) ==
    [k \in 1..Len(f) |-> [exec |-> e, h |-> f[k].h, u |-> f[k].u, res |-> "pending"]]

\* The effect of one step of the chain of task invocation e.
Apply(e, s) ==
    /\ execs' = [execs EXCEPT ![e] = s.ex]
    /\ activeConversations' = s.reg
    /\ fired' = fired \o Invocations(e, s.fire)

\* The callback in progress in task invocation e: its place in `fired`.
Pending(e) == CHOOSE k \in 1..Len(fired) : fired[k].exec = e /\ fired[k].res = "pending"

\* The callback of e that is in progress returns r.
Settle(e, r, s) ==
    /\ execs' = [execs EXCEPT ![e] = s.ex]
    /\ activeConversations' = s.reg
    /\ fired' = [fired EXCEPT ![Pending(e)].res = r] \o Invocations(e, s.fire)

\* The update the queued task reads at lines 608 and 616: this.update, at
\* the moment of the read.  (TaskUpdateCaptured: the variant in which the
\* closure keeps the update it was queued for.)
TaskUpdateCaptured(e) == submitted[execs[e].task]
TaskUpdate(e) == update

\* App.getUpdates(u): lines 597-603, addTask, and processQueue if not running.
\* The task starts in the same segment when the queue was idle (line 606:
\* the executor calls _applyRateLimit and awaits it).
\* (Dispatch: the statements of getUpdates; getUpdates: a call by the
\* transport, with the updates named as above.)
Dispatch(u) ==
    /\ calls' = calls + 1
    /\ update' = u
    /\ IF u.update_id = last_update_id
       THEN UNCHANGED <<last_update_id, submitted, qvars>>
       ELSE /\ last_update_id' = u.update_id
            /\ submitted' = Append(submitted, u)
            /\ Push(<<Len(submitted) + 1>>)
            /\ returnedEarly' = FALSE
            /\ IF ~running
               THEN ProcessQueueOn(queue \o <<Len(submitted) + 1>>)
               ELSE UNCHANGED <<running, drains, execs>>
            /\ UNCHANGED standby
    /\ UNCHANGED <<hvars, conversation, handlers_global, activeConversations,
                   fired, raw, typeOf>>
getUpdates(u) ==
    /\ calls < MaxSubmit
    /\ SameUpdateAsBefore(u)
    /\ NextUnused(u)
    /\ Dispatch(u)
    /\ UNCHANGED pvars

\* The task resumes after `await this._applyRateLimit()`: lines 607-608.
RateLimitDone(e) ==
    /\ e \in 1..Len(execs)
    /\ execs[e].st = "running" /\ execs[e].pc = "started"
    /\ IF conversation
       THEN Apply(e, handle(execs[e], TaskUpdate(e), activeConversations))
       ELSE Apply(e, Step([execs[e] EXCEPT !.pc = "flat", !.i = 1], <<>>,
                          activeConversations))
    /\ UNCHANGED <<queue, standby, running, drains, enqLog, enqDrain,
                 returnedEarly>>
    /\ UNCHANGED <<hvars, pvars, conversation, handlers_global, update, last_update_id,
                 submitted, calls, raw, typeOf>>

\* A callback of the conversation handler returns r and handle goes on.
ConvCallbackReturns(e, r) ==
    /\ e \in 1..Len(execs)
    /\ execs[e].st = "running"
    /\ execs[e].pc \in {"entry_cb", "global_cb", "state_cb", "fallback_cb"}
    /\ r \in Results(fired[Pending(e)].h)
    /\ Settle(e, r,
         CASE execs[e].pc = "entry_cb" -> AfterEntry(execs[e], r, activeConversations)
           [] execs[e].pc = "global_cb" -> AfterGlobal(execs[e], r, activeConversations)
           [] execs[e].pc = "state_cb" -> AfterState(execs[e], r, activeConversations)
           [] execs[e].pc = "fallback_cb" -> AfterFallback(execs[e], r, activeConversations))
    /\ UNCHANGED <<queue, standby, running, drains, enqLog, enqDrain,
                 returnedEarly>>
    /\ UNCHANGED <<hvars, pvars, conversation, handlers_global, update, last_update_id,
                 submitted, calls, raw, typeOf>>

\* handler.handle(u, context) of an element of handlers.global: the handler
\* whose callback it calls, as a list of none or one.  A BaseHandler calls
\* its own callback when its filter accepts u; the second ConversationHandler
\* runs ConversationHandler.handle on its own, empty lists and registry, which
\* comes down to its fallback loop.
HandleTarget(h, u) ==
    IF IsConversationHandler(h)
    THEN IF FirstMatch(secondFallbacks, u, 1) # 0
         THEN <<secondFallbacks[FirstMatch(secondFallbacks, u, 1)]>>
         ELSE <<>>
    ELSE IF canHandle(h, u) THEN <<h>> ELSE <<>>

\* Lines 615-619: one iteration of the flat loop, `handler.handle(this.update,
\* this.context)` up to the callback, or res() after the last handler.
FlatStep(e) ==
    /\ e \in 1..Len(execs)
    /\ execs[e].st = "running" /\ execs[e].pc = "flat"
    /\ IF execs[e].i > Len(handlers_global)
       THEN Apply(e, Step([execs[e] EXCEPT !.pc = "done", !.st = "completed"],
                          <<>>, activeConversations))
       ELSE IF HandleTarget(handlers_global[execs[e].i], TaskUpdate(e)) # <<>>
       THEN Apply(e, Step([execs[e] EXCEPT !.pc = "flat_cb"],
                          [k \in {1} |->
                              [h |-> HandleTarget(handlers_global[execs[e].i],
                                                  TaskUpdate(e))[1],
                               u |-> TaskUpdate(e)]],
                          activeConversations))
       ELSE Apply(e, Step([execs[e] EXCEPT !.i = execs[e].i + 1], <<>>,
                          activeConversations))
    /\ UNCHANGED <<queue, standby, running, drains, enqLog, enqDrain,
                 returnedEarly>>
    /\ UNCHANGED <<hvars, pvars, conversation, handlers_global, update, last_update_id,
                 submitted, calls, raw, typeOf>>

\* The callback of a flat handler returns; its value is dropped (line 616).
FlatCallbackReturns(e, r) ==
    /\ e \in 1..Len(execs)
    /\ execs[e].st = "running" /\ execs[e].pc = "flat_cb"
    /\ r \in Results(fired[Pending(e)].h)
    /\ Settle(e, r, Step([execs[e] EXCEPT !.pc = "flat", !.i = execs[e].i + 1],
                         <<>>, activeConversations))
    /\ UNCHANGED <<queue, standby, running, drains, enqLog, enqDrain,
                 returnedEarly>>
    /\ UNCHANGED <<hvars, pvars, conversation, handlers_global, update, last_update_id,
                 submitted, calls, raw, typeOf>>

\* The handler objects registered so far.
Registered ==
    {handlers_global[j] : j \in 1..Len(handlers_global)}
        \cup (IF conversation THEN {"CH1"} ELSE {})

\* App.addHandler(h), lines 513-521.  Each handler object is given once, and
\* the first ConversationHandler given is the one called "CH1".
addHandler(h) ==
    /\ Cardinality(Registered) < MaxHandlers
    /\ h \notin Registered
    /\ h = "CH2" => "CH1" \in Registered
    /\ IF IsConversationHandler(h) /\ ~conversation
       THEN /\ conversation' = TRUE
            /\ UNCHANGED handlers_global
       ELSE /\ handlers_global' = Append(handlers_global, h)
            /\ UNCHANGED conversation
    /\ UNCHANGED qvars
    /\ UNCHANGED <<hvars, pvars, update, last_update_id, activeConversations, submitted,
                   calls, fired, raw, typeOf>>

\* A callback throws: the async executor of line 605 rejects, res is never
\* called and the promise the task returned stays pending.
\* (CallbackRaisesRejects: the variant in which the task's promise is
\* rejected.)
CallbackRaisesRejects(e) ==
    /\ e \in 1..Len(execs)
    /\ execs[e].st = "running"
    /\ execs[e].pc \in {"entry_cb", "global_cb", "state_cb", "fallback_cb", "flat_cb"}
    /\ Settle(e, "raised", Step([execs[e] EXCEPT !.pc = "done", !.st = "raised"],
                                <<>>, activeConversations))
    /\ UNCHANGED <<queue, standby, running, drains, enqLog, enqDrain,
                 returnedEarly>>
    /\ UNCHANGED <<hvars, pvars, conversation, handlers_global, update, last_update_id,
                 submitted, calls, raw, typeOf>>
CallbackRaises(e) ==
    /\ e \in 1..Len(execs)
    /\ execs[e].st = "running"
    /\ execs[e].pc \in {"entry_cb", "global_cb", "state_cb", "fallback_cb", "flat_cb"}
    /\ Settle(e, "raised", Step([execs[e] EXCEPT !.pc = "stuck"], <<>>,
                                activeConversations))
    /\ UNCHANGED <<queue, standby, running, drains, enqLog, enqDrain,
                 returnedEarly>>
    /\ UNCHANGED <<hvars, pvars, conversation, handlers_global, update, last_update_id,
                 submitted, calls, raw, typeOf>>


\* ------------------------------------------------------------ run_polling
\* App.run_polling (part_000 632-666) with one flat list of handlers: the
\* server's answer, the loop over it, and the dispatch each getUpdates call
\* starts.

\* The update ids the server hands out.
PollIds == 1..MaxPollId

\* What the server answers to getUpdates with a given offset: updates with
\* increasing ids, none below the offset, at most MaxBatch of them.
Batches(offset) ==
    {b \in UNION {[1..n -> PollIds] : n \in 1..MaxBatch} :
        /\ \A j \in 1..(Len(b) - 1) : b[j] < b[j + 1]
        /\ \A j \in 1..Len(b) : b[j] >= offset}

\* Line 652: the test an update of the answer has to pass.
\* (IsNewFromOffset: the variant that lets the offset itself pass.)
IsNewFromOffset(id, offset) == id >= offset
IsNew(id, offset) == id > offset

\* Lines 633-648: the fetch resolves with an ok response and a non-empty
\* result, and the loop of line 649 begins.
PollFetch(b) ==
    /\ poll.pc = "idle"
    /\ b \in Batches(update_offset)
    /\ poll' = [pc |-> "loop", result |-> b, pos |-> 1, passed |-> <<>>,
                drain |-> 0]
    /\ UNCHANGED update_offset
    /\ UNCHANGED qvars
    /\ UNCHANGED <<conversation, handlers_global, update, last_update_id,
                   activeConversations, submitted, calls, fired, raw, typeOf,
                   hvars>>

\* Lines 649-660: one turn of the loop, up to `await this.getUpdates(update)`
\* and, inside it, `await this.#queue.processQueue()`; after the last turn
\* the next call of run_polling is scheduled.
PollStep ==
    /\ poll.pc = "loop"
    /\ IF poll.pos > Len(poll.result)
       THEN /\ poll' = [poll EXCEPT !.pc = "idle"]
            /\ UNCHANGED update_offset
            /\ UNCHANGED qvars
            /\ UNCHANGED <<conversation, handlers_global, update,
                           last_update_id, activeConversations, submitted,
                           calls, fired, raw, typeOf, hvars>>
       ELSE IF IsNew(poll.result[poll.pos], update_offset)
       THEN /\ update_offset' = poll.result[poll.pos] + 1
            /\ Dispatch(Payload(poll.result[poll.pos], 1, "text"))
            /\ poll' = [poll EXCEPT
                          !.pc = IF running THEN "loop" ELSE "await",
                          !.drain = IF running THEN 0 ELSE Len(drains) + 1,
                          !.pos = @ + 1,
                          !.passed = Append(@, poll.result[poll.pos])]
       ELSE /\ poll' = [poll EXCEPT !.pos = @ + 1]
            /\ UNCHANGED update_offset
            /\ UNCHANGED qvars
            /\ UNCHANGED <<conversation, handlers_global, update,
                           last_update_id, activeConversations, submitted,
                           calls, fired, raw, typeOf, hvars>>

\* `await this.getUpdates(update)` settles: processQueue returned and the
\* loop goes on, or it raised and the catch of line 662 schedules the next
\* call.
PollResumes ==
    /\ poll.pc = "await"
    /\ drains[poll.drain].pc \in {"done", "aborted"}
    /\ poll' = [poll EXCEPT
                  !.pc = IF drains[poll.drain].pc = "done" THEN "loop" ELSE "idle"]
    /\ UNCHANGED update_offset
    /\ UNCHANGED qvars
    /\ UNCHANGED <<conversation, handlers_global, update, last_update_id,
                   activeConversations, submitted, calls, fired, raw, typeOf,
                   hvars>>

\* --------------------------------------------------------------- handlers
\* The handler classes of src/handlers.js called on their own: canHandle,
\* handle, the callback ChatMemberHandler wraps around the user's, and the
\* wrapper accessControl(required)(handler) of src/utils.js.

Users == 1..NumUsers

\* The characters of a message text, and the texts of at most MaxText of them.
Chars == {"/", "s", "t", " "}
Texts == UNION {[1..n -> Chars] : n \in 0..MaxText}
\* The command tokens a CommandHandler is made for.
Commands == {<<"s">>, <<"s", "t">>}
\* The texts of the updates given to the other handler classes.
PlainTexts == {<<>>, <<"s">>, <<"/", "s">>}

\* String.prototype.startsWith.
startsWith(s, p) == Len(p) <= Len(s) /\ SubSeq(s, 1, Len(p)) = p

\* The bitwise operators & and | on non-negative integers.
RECURSIVE BitAnd(_, _)
BitAnd(a, b) ==
    IF a = 0 \/ b = 0 THEN 0
    ELSE (a % 2) * (b % 2) + 2 * BitAnd(a \div 2, b \div 2)
RECURSIVE BitOr(_, _)
BitOr(a, b) ==
    IF a = 0 THEN b
    ELSE IF b = 0 THEN a
    ELSE (IF a % 2 = 1 \/ b % 2 = 1 THEN 1 ELSE 0) + 2 * BitOr(a \div 2, b \div 2)

\* Permissions (src/constants.js 4-10).
Permissions ==
    [NONE |-> 0, MEMBER |-> 1, ADMIN |-> 2, OWNER |-> 4,
     ALL |-> BitOr(BitOr(1, 2), 4)]
\* Filters (src/constants.js 145-165): the flags a text message can raise.
Filters == [NONE |-> 0, TEXT |-> 1, COMMAND |-> 16]

\* The private field Update.#chat_member before any assignment, and what
\* getChatMember yields on an error response (null).
NullMember == "null"
\* What getChatMember yields on success: new ChatMember(resp.result).
AChatMember == "ChatMember"

\* The kinds of update the handler classes tell apart.
HandlerUpdateTypes ==
    {"message", "callback_query", "chat_member", "my_chat_member", "poll"}

\* An Update object: the kind Update.type yields, the chat and the user the
\* raw structure names, the text of a message, and the private #chat_member.
UpdateObject(type, chat, from, text) ==
    [type |-> type, chat |-> chat, from |-> from, text |-> text,
     member |-> NullMember]
HandlerUpdates ==
    {UpdateObject("message", c, f, t) : c \in Chats, f \in Users, t \in PlainTexts}
    \cup {UpdateObject(k, c, f, <<>>) :
            k \in HandlerUpdateTypes \ {"message"}, c \in Chats, f \in Users}
CommandUpdates ==
    {UpdateObject(k, 1, 1, t) : k \in {"message", "callback_query"}, t \in Texts}

\* A handler object: its class, the token of a CommandHandler, the flags of a
\* MessageHandler; whether its callback is wrapped by accessControl, and the
\* permission required then.
HandlerObject(class, command, filter) ==
    [class |-> class, command |-> command, filter |-> filter,
     gated |-> FALSE, required |-> 0]
HandlerClasses ==
    {HandlerObject("BaseHandler", <<>>, 0),
     HandlerObject("CallbackQueryHandler", <<>>, 0),
     HandlerObject("ChatMemberHandler", <<>>, 0),
     HandlerObject("ChatMemberUpdatedHandler", <<>>, 0),
     HandlerObject("MessageHandler", <<>>, Filters.TEXT),
     HandlerObject("MessageHandler", <<>>, Filters.COMMAND)}
    \cup {HandlerObject("CommandHandler", c, 0) : c \in Commands}
Required ==
    {Permissions.NONE, Permissions.MEMBER, Permissions.ADMIN,
     Permissions.OWNER}
HandlerObjects ==
    HandlerClasses
    \cup {[h EXCEPT !.gated = TRUE, !.required = r] :
            h \in HandlerClasses, r \in Required}

\* What a getter of Update yields when there is no chat or user to name
\* (undefined); the ids of chats and users are positive.
NoId == 0

\* A getter of Update yields a value and leaves Context.botData as bd.
Got(v, bd) == [value |-> v, botData |-> bd]

\* Update.effective_chat (part_000 277-288).
effective_chat(u) ==
    IF u.type \in {"message", "callback_query", "chat_member"}
    THEN u.chat ELSE NoId

\* Update.effective_user (part_000 292-304): for a message it records the
\* chat in Context.botData (line 296).
\* (effective_userPure: the variant that only reads.)
effective_userPure(u, bd) ==
    IF u.type \in {"message", "callback_query", "chat_member"}
    THEN Got(u.from, bd) ELSE Got(NoId, bd)
effective_user(u, bd) ==
    IF u.type = "message"
    THEN Got(u.from, MapSet(bd, "effective_user_chat_id", u.chat))
    ELSE IF u.type \in {"callback_query", "chat_member"}
    THEN Got(u.from, bd) ELSE Got(NoId, bd)

\* The filter of CommandHandler (handlers.js 37).
\* (CommandFilterDelimited: the variant that also looks at the character
\* after the token.)
CommandFilterDelimited(command, u) ==
    /\ u.type = "message"
    /\ u.text # <<>>
    /\ startsWith(u.text, <<"/">> \o command)
    /\ \/ Len(u.text) = Len(command) + 1
       \/ u.text[Len(command) + 2] = " "
CommandFilter(command, u) ==
    /\ u.type = "message"
    /\ u.text # <<>>
    /\ startsWith(u.text, <<"/">> \o command)

\* The filter of MessageHandler given flags (handlers.js 63-93).
MessageFlags(u) ==
    BitOr(IF u.text # <<>> THEN Filters.TEXT ELSE 0,
          IF u.text # <<>> /\ startsWith(u.text, <<"/">>)
          THEN Filters.COMMAND ELSE 0)
MessageFilter(filter, u) ==
    IF u.type # "message" THEN FALSE
    ELSE BitAnd(filter, MessageFlags(u)) # 0

\* The filter of ChatMemberHandler (handlers.js 206): && reads
\* effective_user only when the operands before it are truthy.
ChatMemberFilter(u, bd) ==
    IF u.type = "message" /\ effective_chat(u) # NoId
    THEN LET user == effective_user(u, bd)
         IN  Got(user.value # NoId, user.botData)
    ELSE Got(FALSE, bd)

\* The filter of every class, with what it leaves in Context.botData.  The
\* filter given to a plain BaseHandler is the caller's; here one that reads
\* the kind only.
filter(h, u, bd) ==
    CASE h.class = "BaseHandler" -> Got(u.type = "poll", bd)
      [] h.class = "CommandHandler" -> Got(CommandFilter(h.command, u), bd)
      [] h.class = "MessageHandler" -> Got(MessageFilter(h.filter, u), bd)
      [] h.class = "CallbackQueryHandler" ->
            Got(u.type = "callback_query", bd)
      [] h.class = "ChatMemberHandler" -> ChatMemberFilter(u, bd)
      [] h.class = "ChatMemberUpdatedHandler" ->
            Got(u.type = "chat_member", bd)

\* The rest of the program, which no handler action touches.
UnchangedByHandler ==
    /\ UNCHANGED qvars
    /\ UNCHANGED <<conversation, handlers_global, update, last_update_id,
                   activeConversations, submitted, calls, fired, raw, typeOf,
                   pvars>>

\* BaseHandler.canHandle (handlers.js 16-18): `return this.filter(update)`.
BaseHandler_canHandle ==
    /\ hcall.pc = "idle"
    /\ LET r == filter(handler, hupdate, botData)
       IN  /\ hcall' = [hcall EXCEPT !.pc = "canHandle", !.matched = r.value]
           /\ botData' = r.botData
    /\ UNCHANGED <<handler, hupdate>>
    /\ UnchangedByHandler

\* The callback the handler was made with is called.  Without accessControl
\* it is the user's function; with it the wrapper runs up to
\* `await context.bot.getChatAdministrators(...)` (utils.js 149-150), and
\* `update.effective_chat.id` raises when there is no effective chat.
Callback(hc, bd) ==
    IF ~handler.gated
    THEN [call |-> [hc EXCEPT !.pc = "returned", !.invoked = @ + 1],
          botData |-> bd]
    ELSE LET user == effective_user(hupdate, bd)
         IN  IF effective_chat(hupdate) = NoId
             THEN [call |-> [hc EXCEPT !.pc = "raised"],
                   botData |-> user.botData]
             ELSE [call |-> [hc EXCEPT !.pc = "getChatAdministrators"],
                   botData |-> user.botData]

\* BaseHandler.handle after `await this.canHandle(update)` (handlers.js
\* 20-24, 187-199; CommandHandler 44-50): the callback is called when the
\* filter matched.  The callback of ChatMemberHandler (handlers.js 206-209)
\* first runs up to `await Context.bot.getChatMember(...)`.
BaseHandler_handle ==
    /\ hcall.pc = "canHandle"
    /\ IF ~hcall.matched
       THEN /\ hcall' = [hcall EXCEPT !.pc = "returned"]
            /\ UNCHANGED botData
       ELSE IF handler.class = "ChatMemberHandler"
       THEN /\ hcall' = [hcall EXCEPT !.pc = "getChatMember"]
            /\ botData' = effective_user(hupdate, botData).botData
       ELSE LET r == Callback(hcall, botData)
            IN  /\ hcall' = r.call
                /\ botData' = r.botData
    /\ UNCHANGED <<handler, hupdate>>
    /\ UnchangedByHandler

\* What Bot.getChatMember (part_000 1028-1038) comes to: fetch resolves with
\* an ok response, with an error response (line 1032: null is returned), or
\* fetch rejects.
FetchOutcomes == {"ok", "http error", "transport failure"}

\* `update.chat_member = await Context.bot.getChatMember(...)` settles
\* (handlers.js 207-208): the value is assigned and the wrapped callback
\* called, or the rejection leaves the callback of ChatMemberHandler.
\* (getChatMemberSettlesCaught: the variant that takes a rejection as null.)
getChatMemberSettlesCaught(outcome) ==
    /\ hcall.pc = "getChatMember"
    /\ hupdate' = [hupdate EXCEPT !.member =
                      IF outcome = "ok" THEN AChatMember ELSE NullMember]
    /\ LET r == Callback([hcall EXCEPT !.fetch = outcome], botData)
       IN  /\ hcall' = r.call
           /\ botData' = r.botData
    /\ UNCHANGED handler
    /\ UnchangedByHandler
getChatMemberSettles(outcome) ==
    /\ hcall.pc = "getChatMember"
    /\ IF outcome = "transport failure"
       THEN /\ hcall' = [hcall EXCEPT !.pc = "raised", !.fetch = outcome]
            /\ UNCHANGED <<hupdate, botData>>
       ELSE /\ hupdate' = [hupdate EXCEPT !.member =
                             IF outcome = "ok" THEN AChatMember ELSE NullMember]
            /\ LET r == Callback([hcall EXCEPT !.fetch = outcome], botData)
               IN  /\ hcall' = r.call
                   /\ botData' = r.botData
    /\ UNCHANGED handler
    /\ UnchangedByHandler

\* What getChatAdministrators resolves with: for every user the status of
\* the entry the list has for them ("member": no entry).
AdminLists == [Users -> {"creator", "administrator", "member"}]

\* utils.js 151-163: the permissions of the actor.
\* (userPermissionsOfActor: the variant without line 161.)
userPermissionsOfActor(admins, userId) ==
    BitOr(IF admins[userId] = "creator" THEN Permissions.OWNER ELSE 0,
          IF admins[userId] = "administrator" THEN Permissions.ADMIN ELSE 0)
userPermissions(admins, userId) ==
    BitOr(BitOr(IF admins[userId] = "creator" THEN Permissions.OWNER ELSE 0,
                IF admins[userId] = "administrator" THEN Permissions.ADMIN
                ELSE 0),
          Permissions.ALL)

\* utils.js 163: hasAccess.
hasAccess(admins, userId, required) ==
    BitAnd(userPermissions(admins, userId), required) > 0

\* `await context.bot.getChatAdministrators(...)` settles (utils.js 150-172):
\* with access the wrapped handler is called, without it denyAccess sends the
\* denial (utils.js 177-181) and awaits it.  The call records the status
\* the list has for the actor.
getChatAdministratorsSettles(admins) ==
    /\ hcall.pc = "getChatAdministrators"
    /\ IF hasAccess(admins, hupdate.from, handler.required)
       THEN hcall' = [hcall EXCEPT !.pc = "returned",
                                   !.status = admins[hupdate.from],
                                   !.invoked = @ + 1]
       ELSE hcall' = [hcall EXCEPT !.pc = "sendMessage",
                                   !.status = admins[hupdate.from],
                                   !.sent = @ + 1]
    /\ UNCHANGED <<handler, hupdate, botData>>
    /\ UnchangedByHandler

\* `await context.bot.getChatAdministrators(...)` raises: the rejection
\* leaves the wrapper.
getChatAdministratorsRaises ==
    /\ hcall.pc = "getChatAdministrators"
    /\ hcall' = [hcall EXCEPT !.pc = "raised", !.status = "rejected"]
    /\ UNCHANGED <<handler, hupdate, botData>>
    /\ UnchangedByHandler

\* `await update.effective_chat.sendMessage(...)` of denyAccess settles.
sendMessageSettles ==
    /\ hcall.pc = "sendMessage"
    /\ hcall' = [hcall EXCEPT !.pc = "returned"]
    /\ UNCHANGED <<handler, hupdate, botData>>
    /\ UnchangedByHandler

\* No handler is under call.
IdleCall ==
    [pc |-> "idle", matched |-> FALSE, invoked |-> 0, sent |-> 0,
     fetch |-> "not called", status |-> "not called"]

InitHandler ==
    /\ handler = HandlerObject("BaseHandler", <<>>, 0)
    /\ hupdate = UpdateObject("poll", 1, 1, <<>>)
    /\ botData = << >>
    /\ hcall = IdleCall

\* run_polling was not called: App.update_offset is 0 (part_000 402).
IdlePoll ==
    [pc |-> "idle", result |-> <<>>, pos |-> 0, passed |-> <<>>, drain |-> 0]
InitPolling ==
    /\ update_offset = 0
    /\ poll = IdlePoll

InitQueue ==
    /\ queue = <<>>
    /\ standby = <<>>
    /\ running = FALSE
    /\ drains = <<>>
    /\ execs = <<>>
    /\ enqLog = <<>>
    /\ enqDrain = <<>>
    /\ returnedEarly = FALSE

\* No Update object has been asked for its type.
NotCalled == "not called"

\* No Update object is looked at.
InitUpdate ==
    /\ raw = {}
    /\ typeOf = NotCalled

InitApp ==
    /\ update = Null
    /\ last_update_id = Null.update_id
    /\ activeConversations = << >>
    /\ submitted = <<>>
    /\ calls = 0
    /\ fired = <<>>

\* The Queue on its own, driven by any caller.
SpecQueueInit ==
    /\ InitQueue
    /\ InitPolling
    /\ InitHandler
    /\ InitApp
    /\ InitUpdate
    /\ conversation = FALSE
    /\ handlers_global = <<>>

SpecQueueNext ==
    \/ \E t \in Tasks : addTask(t)
    \/ \E t1, t2 \in Tasks : addTasks(<<t1, t2>>)
    \/ \E t \in Tasks : addStandby(t)
    \/ \E index \in (0 - 1)..MaxStandby : approveTaskById(index)
    \/ approveAllTasks
    \/ \E index \in (0 - 1)..MaxStandby : clearStandby(index)
    \/ clearAllStandby
    \/ processQueue
    \/ \E e \in 1..Len(execs) : TaskCompletes(e)
    \/ \E e \in 1..Len(execs) : TaskRaises(e)
    \/ \E d \in 1..Len(drains) : DrainResumes(d)

SpecQueue == SpecQueueInit /\ [][SpecQueueNext]_vars

\* The Queue with tasks that all complete.  A promise that is to be fulfilled
\* is fulfilled in finite time, and the continuation of `await task()` is a
\* microtask that the event loop runs once the promise has settled.
AnyTaskCompletes == \E e \in 1..Len(execs) : TaskCompletes(e)
AnyDrainResumes == \E d \in 1..Len(drains) : DrainResumes(d)

SpecDrainNext ==
    \/ \E t \in Tasks : addTask(t)
    \/ \E t1, t2 \in Tasks : addTasks(<<t1, t2>>)
    \/ \E t \in Tasks : addStandby(t)
    \/ \E index \in (0 - 1)..MaxStandby : approveTaskById(index)
    \/ approveAllTasks
    \/ \E index \in (0 - 1)..MaxStandby : clearStandby(index)
    \/ clearAllStandby
    \/ processQueue
    \/ AnyTaskCompletes
    \/ AnyDrainResumes

SpecDrain ==
    /\ SpecQueueInit
    /\ [][SpecDrainNext]_vars
    /\ WF_vars(AnyTaskCompletes)
    /\ WF_vars(AnyDrainResumes)

\* The dispatcher: App.getUpdates called by the transport at any time.
SpecAppInit ==
    /\ InitQueue
    /\ InitPolling
    /\ InitHandler
    /\ InitApp
    /\ InitUpdate
    /\ conversation \in BOOLEAN
    /\ handlers_global = handlersGlobal

SpecAppNext ==
    \/ \E id \in UpdateIds, c \in Chats, k \in Kinds :
           getUpdates(Payload(id, c, k))
    \/ \E e \in 1..Len(execs) : RateLimitDone(e)
    \/ \E e \in 1..Len(execs), r \in {"S1", "S2", END, Undefined} :
           ConvCallbackReturns(e, r)
    \/ \E e \in 1..Len(execs) : FlatStep(e)
    \/ \E e \in 1..Len(execs), r \in {Undefined} : FlatCallbackReturns(e, r)
    \/ \E e \in 1..Len(execs) : CallbackRaises(e)
    \/ \E d \in 1..Len(drains) : DrainResumes(d)

SpecApp == SpecAppInit /\ [][SpecAppNext]_vars

\* The dispatcher of an App whose handlers are registered by addHandler, at
\* any time before and between updates.
SpecSetupInit ==
    /\ InitQueue
    /\ InitPolling
    /\ InitHandler
    /\ InitApp
    /\ InitUpdate
    /\ conversation = FALSE
    /\ handlers_global = <<>>

SpecSetupNext ==
    \/ \E h \in Handlers : addHandler(h)
    \/ \E id \in UpdateIds, c \in Chats, k \in Kinds :
           calls < MaxSetupSubmit /\ getUpdates(Payload(id, c, k))
    \/ \E e \in 1..Len(execs) : RateLimitDone(e)
    \/ \E e \in 1..Len(execs), r \in {"S1", "S2", END, Undefined} :
           ConvCallbackReturns(e, r)
    \/ \E e \in 1..Len(execs) : FlatStep(e)
    \/ \E e \in 1..Len(execs), r \in {Undefined} : FlatCallbackReturns(e, r)
    \/ \E e \in 1..Len(execs) : CallbackRaises(e)
    \/ \E d \in 1..Len(drains) : DrainResumes(d)

SpecSetup == SpecSetupInit /\ [][SpecSetupNext]_vars

\* Update.type on any raw update.
SpecTypeInit ==
    /\ InitQueue
    /\ InitPolling
    /\ InitHandler
    /\ InitApp
    /\ conversation = FALSE
    /\ handlers_global = <<>>
    /\ raw \in RawUpdates
    /\ typeOf = NotCalled

SpecTypeNext == GetType

SpecType == SpecTypeInit /\ [][SpecTypeNext]_vars

\* CommandHandler.canHandle on any text.
SpecCommandInit ==
    /\ InitQueue
    /\ InitPolling
    /\ InitApp
    /\ InitUpdate
    /\ conversation = FALSE
    /\ handlers_global = <<>>
    /\ handler \in {HandlerObject("CommandHandler", c, 0) : c \in Commands}
    /\ hupdate \in CommandUpdates
    /\ botData = << >>
    /\ hcall = IdleCall

SpecCommandNext == BaseHandler_canHandle

SpecCommand == SpecCommandInit /\ [][SpecCommandNext]_vars

\* Long polling: run_polling fetches, passes the updates on and the tasks
\* run.
SpecPollingInit ==
    /\ InitQueue
    /\ InitPolling
    /\ InitHandler
    /\ InitApp
    /\ InitUpdate
    /\ conversation = FALSE
    /\ handlers_global = handlersGlobal

SpecPollingNext ==
    \/ \E b \in Batches(update_offset) : PollFetch(b)
    \/ PollStep
    \/ PollResumes
    \/ \E e \in 1..Len(execs) : RateLimitDone(e)
    \/ \E e \in 1..Len(execs) : FlatStep(e)
    \/ \E e \in 1..Len(execs), r \in {Undefined} : FlatCallbackReturns(e, r)
    \/ \E e \in 1..Len(execs) : CallbackRaises(e)
    \/ \E d \in 1..Len(drains) : DrainResumes(d)

SpecPolling == SpecPollingInit /\ [][SpecPollingNext]_vars

\* One handler of any class, with or without accessControl, called with any
\* update.
SpecHandlerInit ==
    /\ InitQueue
    /\ InitPolling
    /\ InitApp
    /\ InitUpdate
    /\ conversation = FALSE
    /\ handlers_global = <<>>
    /\ handler \in HandlerObjects
    /\ hupdate \in HandlerUpdates
    /\ botData = << >>
    /\ hcall = IdleCall

SpecHandlerNext ==
    \/ BaseHandler_canHandle
    \/ BaseHandler_handle
    \/ \E outcome \in FetchOutcomes : getChatMemberSettles(outcome)
    \/ \E admins \in AdminLists : getChatAdministratorsSettles(admins)
    \/ getChatAdministratorsRaises
    \/ sendMessageSettles

SpecHandler == SpecHandlerInit /\ [][SpecHandlerNext]_vars

\* ----------------------------------------------------------------- claims
Running(e) == execs[e].st = "running"
EntryHandlers == {entryPoints[j] : j \in 1..Len(entryPoints)}
StateHandlers == UNION {{states[t][j] : j \in 1..Len(states[t])} : t \in DOMAIN states}
\* The handlers whose result ConversationHandler.handle looks at.
RoutingHandlers == EntryHandlers \cup StateHandlers \cup
                   {globalHandlers[j] : j \in 1..Len(globalHandlers)}
Returned(k) == fired[k].res \notin {"pending", "raised"}
\* fired[k] is the latest returned entry-point, global or state callback for
\* the identity c.
LatestRouting(k, c) ==
    /\ fired[k].h \in RoutingHandlers /\ ChatId(fired[k].u) = c /\ Returned(k)
    /\ \A k2 \in (k + 1)..Len(fired) :
          ~(fired[k2].h \in RoutingHandlers /\ ChatId(fired[k2].u) = c /\ Returned(k2))
\* The callbacks of the conversation handler that task invocation e started.
ConvFired(e) ==
    LET Test(f) == f.exec = e /\ f.h \in ConvHandlers IN SelectSeq(fired, Test)
\* The flat handlers that task invocation e started, in order.
FlatFired(e) ==
    LET Test(f) == f.exec = e /\ f.h \in FlatHandlers
        F == SelectSeq(fired, Test)
    IN  [k \in 1..Len(F) |-> F[k].h]

\* C1 (SpecQueue). Queue mutual exclusion: whatever the interleaving of
\* addTask, addTasks, approveTaskById, approveAllTasks and processQueue calls,
\* at most one task taken from the main list has been started and has not yet
\* completed.
C1_MutualExclusion ==
    Cardinality({e \in 1..Len(execs) : Running(e)}) <= 1

\* C1 witness: a second drain runs a task after an earlier one has finished,
\* with tasks pushed during the drain still waiting behind it.
C1_Witness ==
    /\ Len(drains) >= 2 /\ Len(execs) >= 2
    /\ Running(Len(execs))
    /\ Len(queue) >= 2
    /\ enqDrain[Len(enqLog)] # 0

\* C3 (SpecQueue). Queue FIFO: the tasks are started in exactly the order in
\* which they were pushed onto the main list, each only after the one before
\* it completed, and a task pushed while a drain was in its loop is started by
\* that same drain.
C3_Fifo ==
    \A e \in 1..Len(execs) :
        /\ e <= Len(enqLog) /\ execs[e].task = enqLog[e]
        /\ (e < Len(execs) => execs[e].st = "completed")
        /\ (enqDrain[e] # 0 => execs[e].drain = enqDrain[e])

\* C3 witness: three tasks ran in a row, the first two different, the third
\* pushed while the drain was already running.
C3_Witness ==
    /\ Len(execs) >= 3
    /\ enqLog[1] # enqLog[2]
    /\ enqDrain[3] # 0
    /\ execs[3].st = "completed"

\* C2 (SpecApp). Dispatcher serialization: the chain of the task queued for
\* one update has run to completion before the chain of the next task
\* starts; the callbacks appear grouped by task, and a callback starts only
\* when every callback started before it has ended.
C2_Serialized ==
    /\ \A e \in 1..Len(execs) : e < Len(execs) => execs[e].st = "completed"
    /\ \A k1, k2 \in 1..Len(fired) : k1 < k2 => fired[k1].exec <= fired[k2].exec
    /\ \A k \in 1..Len(fired) : k < Len(fired) => fired[k].res # "pending"

\* C2 witness: getUpdates accepted a second update while the first task was
\* suspended, and callbacks of both tasks ran.
C2_Witness ==
    /\ Len(execs) >= 2
    /\ enqDrain[2] # 0
    /\ \E k \in 1..Len(fired) : fired[k].exec = 1
    /\ \E k \in 1..Len(fired) : fired[k].exec = 2

\* C4 (SpecApp). Event ordering: the tasks start in the order in which their
\* updates were accepted, and every callback of the task queued for the i-th
\* accepted update is invoked with that update, so the updates are handled
\* in the order they were accepted and never an earlier one after a later
\* one.
C4_EventOrder ==
    /\ \A e \in 1..Len(execs) : execs[e].task = e
    /\ \A k \in 1..Len(fired) : fired[k].u = submitted[execs[fired[k].exec].task]

\* C5 (SpecApp). Dispatcher short-circuit: a task in which a handler of the
\* conversation handler fired invokes no handler of the flat list.
C5_ShortCircuit ==
    \A k1, k2 \in 1..Len(fired) :
        fired[k1].exec = fired[k2].exec =>
            ~(fired[k1].h \in ConvHandlers /\ fired[k2].h \in FlatHandlers)

\* C6 (SpecApp). Flat handler list: a task that has finished and in which no
\* handler of the conversation handler fired has invoked exactly the flat
\* handlers whose predicate matches its update, in registration order, each
\* with that update.
C6_FlatAll ==
    \A e \in 1..Len(execs) :
        (execs[e].st = "completed" /\ ConvFired(e) = <<>>) =>
            LET Test(h) == canHandle(h, submitted[execs[e].task])
            IN  /\ FlatFired(e) = SelectSeq(handlersGlobal, Test)
                /\ \A k \in 1..Len(fired) :
                      fired[k].exec = e => fired[k].u = submitted[execs[e].task]

\* C7 (SpecApp). Conversation registry: the registry is empty before any
\* callback ran, holds one token per identity, and an identity is in it only
\* if an entry-point callback for that identity returned something other
\* than END and no entry-point, global or state callback for it returned END
\* since.
C7_Registry ==
    /\ (fired = <<>> => DOMAIN activeConversations = {})
    /\ DOMAIN activeConversations \subseteq Chats
    /\ \A c \in DOMAIN activeConversations :
          \E k \in 1..Len(fired) :
              /\ fired[k].h \in EntryHandlers /\ ChatId(fired[k].u) = c
              /\ Returned(k) /\ fired[k].res # END
              /\ \A k2 \in (k + 1)..Len(fired) :
                    ~(fired[k2].h \in RoutingHandlers /\ ChatId(fired[k2].u) = c
                      /\ fired[k2].res = END)

\* C7 witness: one identity is registered, and a fallback has fired for
\* another identity, which is not.
C7_Witness ==
    \E c1, c2 \in Chats :
        /\ c1 \in DOMAIN activeConversations
        /\ c2 \notin DOMAIN activeConversations
        /\ \E k \in 1..Len(fired) :
              fired[k].h = "F1" /\ ChatId(fired[k].u) = c2 /\ Returned(k)

\* C8 (SpecApp). Conversation termination: an identity whose latest
\* entry-point, global or state callback returned END has no registry entry,
\* and the next routing callback for that identity is an entry point.
C8_Termination ==
    \A k \in 1..Len(fired) :
        (fired[k].h \in RoutingHandlers /\ fired[k].res = END) =>
            LET c == ChatId(fired[k].u)
            IN  /\ LatestRouting(k, c) => c \notin DOMAIN activeConversations
                /\ \A k2 \in (k + 1)..Len(fired) :
                      ( /\ fired[k2].h \in RoutingHandlers
                        /\ ChatId(fired[k2].u) = c
                        /\ \A k3 \in (k + 1)..(k2 - 1) :
                              ~(fired[k3].h \in RoutingHandlers
                                /\ ChatId(fired[k3].u) = c) )
                      => fired[k2].h \in EntryHandlers

\* C8 witness: an entry point moved an identity to S1, a handler of S1
\* returned END, and the next update of that identity reached an entry point.
C8_Witness ==
    \E k1, k2, k3 \in 1..Len(fired) :
        /\ k1 < k2 /\ k2 < k3
        /\ ChatId(fired[k1].u) = ChatId(fired[k2].u)
        /\ ChatId(fired[k2].u) = ChatId(fired[k3].u)
        /\ fired[k1].h \in EntryHandlers /\ fired[k1].res = "S1"
        /\ fired[k2].h \in {"A1", "A2"} /\ fired[k2].res = END
        /\ fired[k3].h \in EntryHandlers
        /\ ChatId(fired[k1].u) \notin DOMAIN activeConversations

\* C9 (SpecApp). First match wins in a state: the state handler that fires is
\* the first handler of the current state's list that matches the update, no
\* other handler of the state fires in the same task, and its result alone
\* becomes the identity's state.
C9_FirstMatchWins ==
    \A k \in 1..Len(fired) :
        fired[k].h \in StateHandlers =>
            /\ \A t \in DOMAIN states : \A j \in 1..Len(states[t]) :
                  states[t][j] = fired[k].h =>
                      \A j2 \in 1..(j - 1) : ~canHandle(states[t][j2], fired[k].u)
            /\ \A k2 \in 1..Len(fired) :
                  (k2 # k /\ fired[k2].exec = fired[k].exec)
                      => fired[k2].h \notin StateHandlers
            /\ (LatestRouting(k, ChatId(fired[k].u)) /\ fired[k].res # END) =>
                  /\ ChatId(fired[k].u) \in DOMAIN activeConversations
                  /\ activeConversations[ChatId(fired[k].u)] = fired[k].res

\* C9 witness: in state S1 an update matched both A1 and A2, A1 ran and its
\* result is the identity's state.
C9_Witness ==
    \E k \in 1..Len(fired) :
        /\ fired[k].h = "A1" /\ canHandle("A2", fired[k].u)
        /\ fired[k].res = "S2"
        /\ ChatId(fired[k].u) \in DOMAIN activeConversations
        /\ activeConversations[ChatId(fired[k].u)] = "S2"

\* C10 (SpecApp). Entry transition: for an update whose identity has no
\* registry entry, the first entry point whose predicate matches is the one
\* callback of the conversation handler that runs, none runs when no
\* predicate matches, and its result is stored as the identity's state unless
\* it is END, in which case no entry is created.
C10_EntryTransition ==
    \A e \in 1..Len(execs) :
        (conversation /\ execs[e].pc # "started" /\ ~execs[e].has) =>
            LET u == execs[e].u
                c == ChatId(u)
                M == {j \in 1..Len(entryPoints) : canHandle(entryPoints[j], u)}
                F == ConvFired(e)
            IN  /\ \A k \in 1..Len(F) : F[k].u = u
                /\ M = {} => \A k \in 1..Len(F) : F[k].h \notin EntryHandlers
                /\ M # {} =>
                      /\ Len(F) = 1
                      /\ \E j \in M : F[1].h = entryPoints[j] /\ \A j2 \in M : j <= j2
                /\ \A k \in 1..Len(fired) :
                      ( /\ fired[k].exec = e /\ fired[k].h \in EntryHandlers
                        /\ LatestRouting(k, c) ) =>
                          IF fired[k].res = END
                          THEN c \notin DOMAIN activeConversations
                          ELSE /\ c \in DOMAIN activeConversations
                               /\ activeConversations[c] = fired[k].res

\* C10 witness: "/start" matched both entry points; E1 ran and its token was
\* stored, and for another identity E1 returned END and nothing was stored.
C10_Witness ==
    \E k1, k2 \in 1..Len(fired) :
        /\ fired[k1].h = "E1" /\ canHandle("E2", fired[k1].u)
        /\ fired[k1].res = "S1"
        /\ ChatId(fired[k1].u) \in DOMAIN activeConversations
        /\ activeConversations[ChatId(fired[k1].u)] = "S1"
        /\ fired[k2].h = "E1" /\ fired[k2].res = END
        /\ ChatId(fired[k2].u) \notin DOMAIN activeConversations

GlobalSet == {globalHandlers[j] : j \in 1..Len(globalHandlers)}
FallbackSet == {fallbacks[j] : j \in 1..Len(fallbacks)}
IndexIn(L, h) == CHOOSE j \in 1..Len(L) : L[j] = h
\* Task invocation e called handle for an identity whose state has handlers.
InActiveState(e) ==
    /\ conversation /\ execs[e].pc # "started"
    /\ execs[e].has /\ execs[e].state \in DOMAIN states

C12_FallbackRouting ==
    \A e \in 1..Len(execs) :
        LET F == ConvFired(e)
        IN  \A k \in 1..Len(F) :
                F[k].h \in FallbackSet =>
                    /\ \A k2 \in 1..Len(F) : k2 # k => F[k2].h \notin FallbackSet
                    /\ \A j \in 1..(IndexIn(fallbacks, F[k].h) - 1) :
                          ~canHandle(fallbacks[j], F[k].u)
                    /\ \A k2 \in 1..Len(F) : F[k2].h \notin RoutingHandlers

\* C13 (SpecApp). Deduplication: an update whose update_id equals the id of an
\* update accepted before is discarded, so no two dispatch tasks are started
\* for the same update_id.
C13_Dedup ==
    \A e1, e2 \in 1..Len(execs) :
        e1 # e2 => submitted[execs[e1].task].update_id
                      # submitted[execs[e2].task].update_id

StandbySet == {standby[j] : j \in 1..Len(standby)}
\* The entries the step pushed onto the main list.
Pushed == SubSeq(enqLog', Len(enqLog) + 1, Len(enqLog'))
\* The step is a call of addTask or addTasks.
AddStep ==
    \/ \E t \in Tasks : addTask(t)
    \/ \E t1, t2 \in Tasks : addTasks(<<t1, t2>>)
\* The step is a call of approveTaskById or approveAllTasks.
ApproveStep ==
    \/ \E index \in (0 - 1)..MaxStandby : approveTaskById(index)
    \/ approveAllTasks

\* C14 (SpecQueue). Standby isolation: every task processQueue starts is an
\* entry of the main list; entries get onto the main list only by a call of
\* addTask, addTasks, approveTaskById or approveAllTasks; and a step that
\* changes the standby list (addStandby, clearStandby, clearAllStandby)
\* leaves the main list as it was.
C14_StandbyIsolation ==
    [][ /\ \A e \in 1..Len(execs') :
              e <= Len(enqLog') /\ execs'[e].task = enqLog'[e]
        /\ enqLog' # enqLog => (AddStep \/ ApproveStep)
        /\ standby' # standby => (queue' = queue /\ enqLog' = enqLog)
      ]_vars

\* C14 witness: of two standby tasks one was approved and ran to completion;
\* the queue is idle again and the other, never approved, never ran and is
\* still on standby.
C14_Witness ==
    /\ Len(execs) = 1 /\ execs[1].st = "completed"
    /\ enqLog = <<execs[1].task>> /\ execs[1].task \in StandbySet
    /\ queue = <<>> /\ ~running
    /\ \E j \in 1..Len(standby) : standby[j] # enqLog[1]

\* C15 (SpecQueue). Promotion moves tasks: a call of approveTaskById or
\* approveAllTasks that promotes entries appends them to the tail of the main
\* list in their standby order, takes them off the standby list (so that a
\* second approval cannot push them again), starts no task and leaves the
\* running flag as it was.
C15_PromotionMoves ==
    [][ (ApproveStep /\ Pushed # <<>>) =>
            /\ queue' = queue \o Pushed
            /\ \/ Pushed = standby
               \/ \E j \in 1..Len(standby) : Pushed = <<standby[j]>>
            /\ Len(standby') = Len(standby) - Len(Pushed)
            /\ running' = running /\ execs' = execs /\ drains' = drains
      ]_vars

\* C16 (SpecQueue). Idempotent drain: a call of processQueue made while
\* another invocation is in its loop (running is true) or while the main list
\* is empty returns at once: it starts no task, removes nothing from the main
\* list and leaves the running flag as it was; and an invocation enters the
\* loop only when the queue is idle and the main list is not empty.
C16_IdempotentDrain ==
    [][ /\ (processQueue /\ (running \/ Len(queue) = 0)) =>
              /\ returnedEarly'
              /\ UNCHANGED <<queue, standby, running, drains, execs, enqLog>>
        /\ (processQueue /\ returnedEarly') =>
              UNCHANGED <<queue, standby, running, drains, execs, enqLog>>
        /\ (processQueue /\ Len(drains') > Len(drains)) =>
              (~running /\ Len(queue) > 0)
      ]_vars

\* C16 witness: processQueue was called and returned at once while a drain
\* was awaiting a task with another entry waiting behind it; the task is
\* still running and both entries are still on the main list.
C16_Witness ==
    /\ returnedEarly /\ running
    /\ Len(drains) = 1 /\ Len(execs) = 1 /\ Running(1)
    /\ Len(queue) = 2

\* The entries shifted off the main list so far.
Removed == Len(enqLog) - Len(queue)
\* The main list is the pushed entries less a prefix; every entry of that
\* prefix was started once, in order, and completed before it was removed;
\* beyond it at most the head of the list has been started.
DrainProgress ==
    /\ Removed >= 0
    /\ \A j \in 1..Len(queue) : queue[j] = enqLog[Removed + j]
    /\ \A i \in 1..Removed :
          i <= Len(execs) /\ execs[i].task = enqLog[i] /\ execs[i].st = "completed"
    /\ Len(execs) <= Removed + 1
    /\ Len(execs) = Removed + 1 => (queue # <<>> /\ execs[Len(execs)].task = queue[1])
\* No invocation is in its loop, the main list is empty and every entry ever
\* pushed was started exactly once and completed.
DrainedIdle ==
    /\ ~running /\ queue = <<>>
    /\ \A d \in 1..Len(drains) : drains[d].pc = "done"
    /\ Len(execs) = Len(enqLog)
    /\ \A e \in 1..Len(execs) : execs[e].task = enqLog[e] /\ execs[e].st = "completed"

\* C17 (SpecDrain). Drain completion: when every task completes, an entry
\* leaves the main list only after its task was started once and completed,
\* the step that ends an invocation (running becomes false) leaves the main
\* list empty with every pushed entry executed exactly once, and an
\* invocation that is in its loop eventually ends that way, tasks enqueued
\* meanwhile included.
C17_DrainCompletion ==
    /\ [][DrainProgress' /\ ((running /\ ~running') => DrainedIdle')]_vars
    /\ (running ~> DrainedIdle)

\* C17 witness: one invocation ran two tasks, the second pushed while the
\* first was running, and ended with the main list empty and running false.
C17_Witness ==
    /\ Len(drains) = 1 /\ drains[1].pc = "done"
    /\ Len(execs) = 2 /\ enqDrain = <<0, 1>>
    /\ DrainedIdle

\* C18 (SpecQueue). Task failure aborts the drain: when a task raises, the
\* invocation that started it leaves processQueue at the await (it never
\* reaches the end of the function), it starts no further task, and the
\* raising task and the entries behind it stay on the main list.
C18_FailureAborts ==
    /\ \A e \in 1..Len(execs) :
          execs[e].st = "raised" =>
              LET d == execs[e].drain
              IN  /\ drains[d].exec = e
                  /\ drains[d].pc \in {"await", "aborted"}
                  /\ \A e2 \in (e + 1)..Len(execs) : execs[e2].drain # d
                  /\ Len(queue) = Len(enqLog) - e + 1
                  /\ \A j \in 1..Len(queue) : queue[j] = enqLog[e - 1 + j]
    /\ \A d \in 1..Len(drains) :
          /\ drains[d].pc = "aborted" => execs[drains[d].exec].st = "raised"
          /\ drains[d].pc = "done" =>
                \A e \in 1..Len(execs) :
                    execs[e].drain = d => execs[e].st = "completed"

\* C18 witness: the second task of an invocation raised with one more entry
\* behind it; the invocation is over and that entry was never started.
C18_Witness ==
    /\ Len(drains) = 1 /\ drains[1].pc = "aborted"
    /\ Len(execs) = 2 /\ execs[1].st = "completed" /\ execs[2].st = "raised"
    /\ Len(enqLog) = 3 /\ Len(queue) = 2

\* C19 (SpecSetup). Single conversation machine: whatever handlers were given
\* to addHandler, the handle method of the second ConversationHandler is
\* never run for an update, so no callback it owns is ever invoked.
C19_SingleConversation ==
    \A k \in 1..Len(fired) :
        \A j \in 1..Len(secondFallbacks) : fired[k].h # secondFallbacks[j]

\* The positions of UpdateType.ALL whose field is present in raw.
Present == {j \in 1..Len(UpdateTypeALL) : UpdateTypeALL[j] \in raw}

Delimited(txt, token) ==
    /\ startsWith(txt, <<"/">> \o token)
    /\ \/ Len(txt) = Len(token) + 1
       \/ txt[Len(token) + 2] = " "

\* C21 (SpecCommand). Command predicate: a CommandHandler made for a token
\* matches an update iff the update is a message whose text is '/' followed
\* by exactly the token and then whitespace or the end of the text.
C21_CommandPredicate ==
    (hcall.pc = "canHandle" /\ handler.class = "CommandHandler") =>
        (hcall.matched <=>
            (hupdate.type = "message" /\ Delimited(hupdate.text, handler.command)))

\* C22 (SpecHandler). Predicate purity: a call of canHandle, on a handler of
\* any class, leaves the update, Context.botData, the conversation registry
\* and the queue as they were before the call.
C22_PredicatePurity ==
    [][BaseHandler_canHandle =>
          /\ hupdate' = hupdate
          /\ botData' = botData
          /\ activeConversations' = activeConversations
          /\ queue' = queue /\ standby' = standby /\ running' = running]_vars

\* C23 (SpecHandler). Membership fetch degradation: whatever the call of
\* getChatMember made for a ChatMemberHandler comes to, the handler raises
\* nothing and the wrapped callback is invoked, with #chat_member absent when
\* the fetch failed.
C23_FetchDegradation ==
    (handler.class = "ChatMemberHandler" /\ ~handler.gated
        /\ hcall.fetch \in FetchOutcomes) =>
        /\ hcall.pc # "raised"
        /\ hcall.invoked = 1
        /\ hcall.fetch # "ok" => hupdate.member = NullMember

\* The actor holds the required permission: everybody is a member, an
\* administrator or the creator holds ADMIN, the creator holds OWNER.
Holds(status, required) ==
    \/ required = Permissions.MEMBER
    \/ required = Permissions.ADMIN /\ status \in {"administrator", "creator"}
    \/ required = Permissions.OWNER /\ status = "creator"

\* C24 (SpecHandler). Access-control gating: with a callback wrapped by
\* accessControl(required), required one of MEMBER, ADMIN, OWNER, and the
\* administrators known, an actor who holds the permission gets the wrapped
\* handler invoked and no denial; one who does not gets exactly one denial
\* message and the wrapped handler is not invoked.
C24_AccessGating ==
    (handler.gated /\ handler.required # Permissions.NONE
        /\ hcall.status \in {"creator", "administrator", "member"}) =>
        IF Holds(hcall.status, handler.required)
        THEN hcall.invoked = 1 /\ hcall.sent = 0
        ELSE hcall.invoked = 0 /\ hcall.sent = 1

\* The update the task of invocation e was queued for.
OwnUpdate(e) == submitted[execs[e].task]

\* C25 (SpecApp). Update identity under overlap: every callback a task
\* invokes gets the update the task was queued for, whatever getUpdates calls
\* happened since, and two tasks queued for different updates never pass the
\* same update to the handlers.
C25_UpdateIdentity ==
    /\ \A k \in 1..Len(fired) :
          fired[k].u.update_id = OwnUpdate(fired[k].exec).update_id
    /\ \A k1, k2 \in 1..Len(fired) :
          (fired[k1].exec # fired[k2].exec
              /\ OwnUpdate(fired[k1].exec) # OwnUpdate(fired[k2].exec))
          => fired[k1].u # fired[k2].u

\* A step of the task of invocation e: it resumes from an await, or the
\* callback it awaits returns or raises.
TaskStep(e) ==
    \/ RateLimitDone(e)
    \/ \E r \in {"S1", "S2", END, Undefined} : ConvCallbackReturns(e, r)
    \/ FlatStep(e)
    \/ FlatCallbackReturns(e, Undefined)
    \/ CallbackRaises(e)

\* C26 (SpecApp). Dispatch liveness, as what it needs of every state: a task
\* that was started and has not finished can take a step, so that under fair
\* scheduling every accepted update's task finishes and the queue returns to
\* idle; no raising callback leaves a task that is neither finished nor able
\* to go on, with processQueue awaiting it for ever.
C26_DispatchLiveness ==
    \A e \in 1..Len(execs) :
        execs[e].st = "running" => ENABLED TaskStep(e)

\* run_polling has gone through the whole of an answer.
BatchDone == poll.pc = "idle" /\ poll.result # <<>>

\* C27 (SpecPolling). Polling delivers every update: when run_polling has
\* gone through an answer of the server, every update of the answer was
\* passed to getUpdates once, in the order of the answer, and update_offset
\* is the largest id of the answer plus one.
C27_PollingDelivers ==
    BatchDone =>
        /\ poll.passed = poll.result
        /\ update_offset = poll.result[Len(poll.result)] + 1

\* C28 (SpecApp). Entry point without a next-state token: after an entry
\* point's callback returned undefined, and as long as no other routing
\* callback ran for that identity, the identity has no entry in the registry
\* (so its next update goes through the entry points again).
C28_EntryWithoutToken ==
    \A k \in 1..Len(fired) :
        ( /\ fired[k].h \in EntryHandlers
          /\ fired[k].res = Undefined
          /\ LatestRouting(k, ChatId(fired[k].u)) )
        => ChatId(fired[k].u) \notin DOMAIN activeConversations

\* C29 (SpecApp). No dead conversation: every identity in the registry is
\* registered under a token that has a handler list in states, so that some
\* update of the identity is tried against conversation-global and state
\* handlers and the entry can still change or be removed.
C29_NoDeadConversation ==
    \A c \in DOMAIN activeConversations : activeConversations[c] \in DOMAIN states

\* An invocation of processQueue is in progress: it is in its loop,
\* awaiting a task.
InProgress == \E d \in 1..Len(drains) : drains[d].pc = "await"

\* C30 (SpecQueue). Running flag reflects an active drain: running is true
\* exactly while an invocation of processQueue is in progress; with none in
\* progress, also after one was aborted by a raising task, running is false.
C30_RunningReflectsDrain == running <=> InProgress

====
